---- MODULE Spec2Model ----
(***************************************************************************)
(* A model of two parts of rust-cpython:                                   *)
(*   src/src/objects/sequence.rs   PySequence and PySequenceIterator       *)
(*   src/src/rustobject/class.rs   the py_class! lazy type initialisation  *)
(*                                                                         *)
(* The foreign (CPython) sequence protocol is modelled for two kinds of    *)
(* object: a list, and an object that passes PySequence_Check but whose    *)
(* sequence slots raise (every foreign call on it returns its sentinel).   *)
(***************************************************************************)
EXTENDS Integers, Sequences, FiniteSets, TLC

\* ------------------------------------------------------------------ bounds
MaxLen == 3
MaxVal == 2
MaxCount == 2
MaxCalls == 4
MaxObjs == 2
MaxRefs == 2

VARIABLES kind, seq, pyerr, last, it,
          type_ptr, init_active, stack, builds, calls, heap, ret

seqvars == <<kind, seq, pyerr, last, it>>
classvars == <<type_ptr, init_active, stack, builds, calls, heap, ret>>
vars == <<kind, seq, pyerr, last, it, type_ptr, init_active, stack, builds, calls, heap, ret>>

\* ------------------------------------------------------------ input sets
Vals == 1..MaxVal
Idx == (0 - (MaxLen + 1))..(MaxLen + 1)
SliceIdx == {0 - 1, 1, MaxLen}
Counts == (0 - MaxCount)..MaxCount
Kinds == {"list", "raising"}

RECURSIVE SeqsUpTo(_)
SeqsUpTo(n) ==
    IF n = 0 THEN {<<>>}
    ELSE LET S == SeqsUpTo(n - 1)
         IN S \cup {Append(s, v) : s \in {t \in S : Len(t) = n - 1}, v \in Vals}

Lists == SeqsUpTo(MaxLen)

\* ------------------------------------------------- results of operations
\* PyResult::Ok(v)
Ok(v) == [tag |-> "ok", val |-> v, exc |-> "none"]
\* PyResult::Err(PyErr::fetch(py)): the error taken from the runtime session
Err(e) == [tag |-> "err", val |-> 0, exc |-> e]
\* a panic (assert!, unwrap, expect, unimplemented!) with its message
Panic(m) == [tag |-> "panic", val |-> 0, exc |-> m]
\* a PyObject wrapping a null pointer, returned as if it were an element
NullHandle == [tag |-> "null", val |-> 0, exc |-> "none"]

\* what an operation did: its result, the sequence afterwards, whether a
\* foreign call returned its sentinel, the exception that call raised, and
\* whether the wrapper fetched it from the session
Outcome(r, post, sentinel, raised, fetched) ==
    [res |-> r, post |-> post, sentinel |-> sentinel, raised |-> raised,
     fetched |-> fetched]

\* --------------------------------------------- the foreign sequence calls
\* a negative index counts from the end (PySequence_GetItem, _SetItem, _DelItem)
Norm(i, n) == IF i < 0 THEN i + n ELSE i

\* a slice bound clipped to 0..n after counting a negative one from the end
Clip(i, n) ==
    LET j == Norm(i, n)
    IN IF j < 0 THEN 0 ELSE IF j > n THEN n ELSE j

RemoveAt(s, j) == SubSeq(s, 1, j) \o SubSeq(s, j + 2, Len(s))

RECURSIVE Times(_, _)
Times(s, n) == IF n <= 0 THEN <<>> ELSE s \o Times(s, n - 1)

RECURSIVE CountOf(_, _)
CountOf(s, x) ==
    IF s = <<>> THEN 0
    ELSE (IF Head(s) = x THEN 1 ELSE 0) + CountOf(Tail(s), x)

Positions(s, x) == {p \in 1..Len(s) : s[p] = x}

Min(S) == CHOOSE m \in S : \A o \in S : m <= o

\* integer-returning calls: rv is the C return value, -1 the sentinel
FFI_Size(k, s) ==
    IF k = "raising" THEN [rv |-> 0 - 1, exc |-> "TypeError"]
    ELSE [rv |-> Len(s), exc |-> "none"]

FFI_SetItem(k, s, i, v) ==
    LET j == Norm(i, Len(s))
    IN IF k = "raising" THEN [rv |-> 0 - 1, post |-> s, exc |-> "TypeError"]
       ELSE IF j < 0 \/ j >= Len(s)
            THEN [rv |-> 0 - 1, post |-> s, exc |-> "IndexError"]
            ELSE [rv |-> 0, post |-> [s EXCEPT ![j + 1] = v], exc |-> "none"]

FFI_DelItem(k, s, i) ==
    LET j == Norm(i, Len(s))
    IN IF k = "raising" THEN [rv |-> 0 - 1, post |-> s, exc |-> "TypeError"]
       ELSE IF j < 0 \/ j >= Len(s)
            THEN [rv |-> 0 - 1, post |-> s, exc |-> "IndexError"]
            ELSE [rv |-> 0, post |-> RemoveAt(s, j), exc |-> "none"]

FFI_SetSlice(k, s, i1, i2, v) ==
    LET b == Clip(i1, Len(s))
        e == IF Clip(i2, Len(s)) < b THEN b ELSE Clip(i2, Len(s))
    IN IF k = "raising" THEN [rv |-> 0 - 1, post |-> s, exc |-> "TypeError"]
       ELSE [rv |-> 0, post |-> SubSeq(s, 1, b) \o v \o SubSeq(s, e + 1, Len(s)),
             exc |-> "none"]

FFI_DelSlice(k, s, i1, i2) == FFI_SetSlice(k, s, i1, i2, <<>>)

FFI_Count(k, s, x) ==
    IF k = "raising" THEN [rv |-> 0 - 1, exc |-> "TypeError"]
    ELSE [rv |-> CountOf(s, x), exc |-> "none"]

FFI_Contains(k, s, x) ==
    IF k = "raising" THEN [rv |-> 0 - 1, exc |-> "TypeError"]
    ELSE [rv |-> IF Positions(s, x) # {} THEN 1 ELSE 0, exc |-> "none"]

FFI_Index(k, s, x) ==
    IF k = "raising" THEN [rv |-> 0 - 1, exc |-> "TypeError"]
    ELSE IF Positions(s, x) = {} THEN [rv |-> 0 - 1, exc |-> "ValueError"]
    ELSE [rv |-> Min(Positions(s, x)) - 1, exc |-> "none"]

\* object-returning calls: null is the sentinel
FFI_GetItem(k, s, i) ==
    LET j == Norm(i, Len(s))
    IN IF k = "raising" THEN [null |-> TRUE, val |-> 0, exc |-> "TypeError"]
       ELSE IF j < 0 \/ j >= Len(s)
            THEN [null |-> TRUE, val |-> 0, exc |-> "IndexError"]
            ELSE [null |-> FALSE, val |-> s[j + 1], exc |-> "none"]

FFI_Concat(k, s, o) ==
    IF k = "raising" THEN [null |-> TRUE, val |-> <<>>, exc |-> "TypeError"]
    ELSE [null |-> FALSE, val |-> s \o o, exc |-> "none"]

FFI_Repeat(k, s, n) ==
    IF k = "raising" THEN [null |-> TRUE, val |-> <<>>, exc |-> "TypeError"]
    ELSE [null |-> FALSE, val |-> Times(s, n), exc |-> "none"]

FFI_GetSlice(k, s, i1, i2) ==
    LET b == Clip(i1, Len(s))
        e == Clip(i2, Len(s))
    IN IF k = "raising" THEN [null |-> TRUE, val |-> <<>>, exc |-> "TypeError"]
       ELSE [null |-> FALSE, val |-> SubSeq(s, b + 1, e), exc |-> "none"]

FFI_List(k, s) ==
    IF k = "raising" THEN [null |-> TRUE, val |-> <<>>, exc |-> "TypeError"]
    ELSE [null |-> FALSE, val |-> s, exc |-> "none"]

FFI_InPlaceConcat(k, s, o) ==
    IF k = "raising" THEN [null |-> TRUE, val |-> <<>>, post |-> s, exc |-> "TypeError"]
    ELSE [null |-> FALSE, val |-> s \o o, post |-> s \o o, exc |-> "none"]

FFI_InPlaceRepeat(k, s, n) ==
    IF k = "raising" THEN [null |-> TRUE, val |-> <<>>, post |-> s, exc |-> "TypeError"]
    ELSE [null |-> FALSE, val |-> Times(s, n), post |-> Times(s, n), exc |-> "none"]

\* ------------------------------------------------ err.rs / object.rs glue
\* result_from_owned_ptr: a null pointer becomes Err(PyErr::fetch(py))
result_from_owned_ptr(p) == IF p.null THEN Err(p.exc) ELSE Ok(p.val)

\* PyObject::from_owned_ptr does not test its pointer outside a debug
\* assertion: on a null pointer a debug build panics and a release build
\* wraps the null pointer.
from_owned_ptr(p) ==
    IF p.null THEN {Panic("debug_assert: null pointer"), NullHandle}
    ELSE {Ok(p.val)}

\* ------------------------------------------------------ impl PySequence
len(k, s) ==
    LET v == FFI_Size(k, s)
    IN IF v.rv = 0 - 1 THEN Outcome(Err(v.exc), s, TRUE, v.exc, TRUE)
       ELSE Outcome(Ok(v.rv), s, FALSE, "none", FALSE)

concat(k, s, other) ==
    LET p == FFI_Concat(k, s, other)
    IN Outcome(result_from_owned_ptr(p), s, p.null, p.exc, p.null)

\* repeat, had it refused negative counts
repeat_rejects_negative(k, s, count) ==
    LET p == FFI_Repeat(k, s, count)
    IN IF count < 0 THEN Outcome(Err("ValueError"), s, FALSE, "none", FALSE)
       ELSE Outcome(result_from_owned_ptr(p), s, p.null, p.exc, p.null)

repeat(k, s, count) ==
    LET p == FFI_Repeat(k, s, count)
    IN Outcome(result_from_owned_ptr(p), s, p.null, p.exc, p.null)

in_place_concat(k, s, other) ==
    LET p == FFI_InPlaceConcat(k, s, other)
    IN Outcome(result_from_owned_ptr(p), p.post, p.null, p.exc, p.null)

in_place_repeat(k, s, count) ==
    LET p == FFI_InPlaceRepeat(k, s, count)
    IN Outcome(result_from_owned_ptr(p), p.post, p.null, p.exc, p.null)

\* the assertion, had it also refused negative indices
get_item_assert_nonneg(index, n) == 0 <= index /\ index < n

\* assert!(index < self.len().unwrap())
get_item_assert(index, n) == index < n

\* the set of outcomes: one, except where the null pointer is wrapped
get_item(k, s, index) ==
    LET l == len(k, s)
    IN IF l.res.tag # "ok"
       THEN {Outcome(Panic("unwrap on Err"), s, TRUE, l.raised, TRUE)}
       ELSE IF ~get_item_assert(index, l.res.val)
            THEN {Outcome(Panic("assertion failed: index < len"), s, FALSE, "none", FALSE)}
            ELSE LET p == FFI_GetItem(k, s, index)
                 IN {Outcome(r, s, p.null, p.exc, FALSE) : r \in from_owned_ptr(p)}

get_slice(k, s, begin, end) ==
    LET p == FFI_GetSlice(k, s, begin, end)
    IN Outcome(result_from_owned_ptr(p), s, p.null, p.exc, p.null)

set_item(k, s, i, v) ==
    LET r == FFI_SetItem(k, s, i, v)
    IN IF r.rv = 0 - 1 THEN Outcome(Err(r.exc), r.post, TRUE, r.exc, TRUE)
       ELSE Outcome(Ok(0), r.post, FALSE, "none", FALSE)

\* del_item, had it not tested the foreign return value
del_item_unchecked(k, s, i) ==
    LET r == FFI_DelItem(k, s, i)
    IN Outcome(Ok(0), r.post, r.rv = 0 - 1, r.exc, FALSE)

del_item(k, s, i) ==
    LET r == FFI_DelItem(k, s, i)
    IN IF r.rv = 0 - 1 THEN Outcome(Err(r.exc), r.post, TRUE, r.exc, TRUE)
       ELSE Outcome(Ok(0), r.post, FALSE, "none", FALSE)

set_slice(k, s, i1, i2, v) ==
    LET r == FFI_SetSlice(k, s, i1, i2, v)
    IN IF r.rv = 0 - 1 THEN Outcome(Err(r.exc), r.post, TRUE, r.exc, TRUE)
       ELSE Outcome(Ok(0), r.post, FALSE, "none", FALSE)

del_slice(k, s, i1, i2) ==
    LET r == FFI_DelSlice(k, s, i1, i2)
    IN IF r.rv = 0 - 1 THEN Outcome(Err(r.exc), r.post, TRUE, r.exc, TRUE)
       ELSE Outcome(Ok(0), r.post, FALSE, "none", FALSE)

count(k, s, v) ==
    LET r == FFI_Count(k, s, v)
    IN IF r.rv = 0 - 1 THEN Outcome(Err(r.exc), s, TRUE, r.exc, TRUE)
       ELSE Outcome(Ok(r.rv), s, FALSE, "none", FALSE)

\* contains, had it taken every non-zero return value for true
contains_nonzero_is_true(k, s, v) ==
    LET r == FFI_Contains(k, s, v)
    IN IF r.rv = 0 THEN Outcome(Ok(FALSE), s, FALSE, "none", FALSE)
       ELSE Outcome(Ok(TRUE), s, r.rv = 0 - 1, r.exc, FALSE)

\* match v { 0 => Ok(false), 1 => Ok(true), _ => Err(PyErr::fetch(py)) }
contains(k, s, v) ==
    LET r == FFI_Contains(k, s, v)
    IN CASE r.rv = 0 -> Outcome(Ok(FALSE), s, FALSE, "none", FALSE)
         [] r.rv = 1 -> Outcome(Ok(TRUE), s, FALSE, "none", FALSE)
         [] OTHER -> Outcome(Err(r.exc), s, TRUE, r.exc, TRUE)

index(k, s, v) ==
    LET r == FFI_Index(k, s, v)
    IN IF r.rv = 0 - 1 THEN Outcome(Err(r.exc), s, TRUE, r.exc, TRUE)
       ELSE Outcome(Ok(r.rv), s, FALSE, "none", FALSE)

list(k, s) ==
    LET p == FFI_List(k, s)
    IN Outcome(result_from_owned_ptr(p), s, p.null, p.exc, p.null)

tuple(k, s) ==
    LET p == FFI_List(k, s)
    IN Outcome(result_from_owned_ptr(p), s, p.null, p.exc, p.null)

\* ------------------------------------------------ PySequenceIterator
\* the comparison, off by one
next_has_item_off_by_one(idx, n) == idx + 1 < n

\* if self.index < len
next_has_item(idx, n) == idx < n

\* PySequenceIterator { sequence, index: 0 }; yielded, dirty, ret and ended
\* record what the iterator returned so far, whether the sequence changed
\* since it was made, what the last next() did, and whether some next() has
\* returned None
NewIterator(how) ==
    [state |-> how, index |-> 0, yielded |-> <<>>, dirty |-> FALSE, ret |-> "none",
     ended |-> FALSE]

NoIterator == NewIterator("none")

\* next(), but fused: once it has returned None it returns None for ever
next_fused(k, s, i) ==
    LET l == len(k, s)
    IN IF l.res.tag # "ok"
       THEN {[iter |-> [i EXCEPT !.ret = "panic"], sentinel |-> TRUE,
              raised |-> l.raised, fetched |-> TRUE]}
       ELSE IF ~i.ended /\ next_has_item(i.index, l.res.val)
            THEN {[iter |-> IF g.res.tag = "panic"
                            THEN [i EXCEPT !.ret = "panic"]
                            ELSE [i EXCEPT !.index = @ + 1,
                                           !.yielded = Append(@, g.res.val),
                                           !.ret = IF g.res.tag = "null" THEN "some_null" ELSE "some"],
                   sentinel |-> g.sentinel, raised |-> g.raised, fetched |-> g.fetched]
                  : g \in get_item(k, s, i.index)}
            ELSE {[iter |-> [i EXCEPT !.ret = "exhausted", !.ended = TRUE],
                   sentinel |-> FALSE, raised |-> "none", fetched |-> FALSE]}

\* next(), but a failed length query reads as the end of the sequence
next_len_failure_ends(k, s, i) ==
    LET l == len(k, s)
    IN IF l.res.tag = "ok" /\ next_has_item(i.index, l.res.val)
       THEN {[iter |-> IF g.res.tag = "panic"
                       THEN [i EXCEPT !.ret = "panic"]
                       ELSE [i EXCEPT !.index = @ + 1,
                                      !.yielded = Append(@, g.res.val),
                                      !.ret = IF g.res.tag = "null" THEN "some_null" ELSE "some"],
              sentinel |-> g.sentinel, raised |-> g.raised, fetched |-> g.fetched]
             : g \in get_item(k, s, i.index)}
       ELSE {[iter |-> [i EXCEPT !.ret = "exhausted", !.ended = TRUE],
              sentinel |-> l.sentinel, raised |-> l.raised, fetched |-> l.sentinel]}

\* the outcomes of one next(): the iterator afterwards, with the sentinel seen
next(k, s, i) ==
    LET l == len(k, s)
    IN IF l.res.tag # "ok"
       THEN {[iter |-> [i EXCEPT !.ret = "panic"], sentinel |-> TRUE,
              raised |-> l.raised, fetched |-> TRUE]}
       ELSE IF next_has_item(i.index, l.res.val)
            THEN {[iter |-> IF g.res.tag = "panic"
                            THEN [i EXCEPT !.ret = "panic"]
                            ELSE [i EXCEPT !.index = @ + 1,
                                           !.yielded = Append(@, g.res.val),
                                           !.ret = IF g.res.tag = "null" THEN "some_null" ELSE "some"],
                   sentinel |-> g.sentinel, raised |-> g.raised, fetched |-> g.fetched]
                  : g \in get_item(k, s, i.index)}
            ELSE {[iter |-> [i EXCEPT !.ret = "exhausted", !.ended = TRUE],
                   sentinel |-> FALSE, raised |-> "none", fetched |-> FALSE]}

\* --------------------------------------------------- the session's state
\* the error indicator of the runtime session after a call: PyErr::fetch
\* clears it, an unfetched error stays pending
ErrAfter(pending, sentinel, raised, fetched) ==
    IF sentinel THEN (IF fetched THEN "none" ELSE raised) ELSE pending

NoOp == [op |-> "none", a |-> 0, b |-> 0, pre |-> <<>>, res |-> Ok(0),
         sentinel |-> FALSE, raised |-> "none"]

\* one call of a PySequence method by the embedder
Apply(name, a, b, out) ==
    /\ last' = [op |-> name, a |-> a, b |-> b, pre |-> seq, res |-> out.res,
                sentinel |-> out.sentinel, raised |-> out.raised]
    /\ seq' = out.post
    /\ pyerr' = ErrAfter(pyerr, out.sentinel, out.raised, out.fetched)
    /\ UNCHANGED <<kind, it, type_ptr, init_active, stack, builds, calls, heap, ret>>

Others(s) == {s} \cup {<<v>> : v \in Vals}

Call_len == Apply("len", 0, 0, len(kind, seq))

Call_concat ==
    \E o \in Others(seq) : Apply("concat", o, 0, concat(kind, seq, o))

Call_repeat ==
    \E n \in Counts : Apply("repeat", n, 0, repeat(kind, seq, n))

Call_in_place_concat ==
    \E o \in Others(seq) :
        /\ Len(seq) + Len(o) <= MaxLen
        /\ Apply("in_place_concat", o, 0, in_place_concat(kind, seq, o))

Call_in_place_repeat ==
    \E n \in Counts :
        /\ Len(seq) * n <= MaxLen
        /\ Apply("in_place_repeat", n, 0, in_place_repeat(kind, seq, n))

Call_get_item ==
    \E i \in Idx : \E out \in get_item(kind, seq, i) : Apply("get_item", i, 0, out)

Call_get_slice ==
    \E b \in SliceIdx, e \in SliceIdx :
        Apply("get_slice", b, e, get_slice(kind, seq, b, e))

Call_set_item ==
    \E i \in Idx, v \in Vals : Apply("set_item", i, v, set_item(kind, seq, i, v))

Call_del_item ==
    \E i \in Idx : Apply("del_item", i, 0, del_item(kind, seq, i))

Call_set_slice ==
    \E b \in SliceIdx, e \in SliceIdx, v \in Vals :
        /\ Len(set_slice(kind, seq, b, e, <<v>>).post) <= MaxLen
        /\ Apply("set_slice", b, e, set_slice(kind, seq, b, e, <<v>>))

Call_del_slice ==
    \E b \in SliceIdx, e \in SliceIdx :
        Apply("del_slice", b, e, del_slice(kind, seq, b, e))

Call_count ==
    \E x \in Vals : Apply("count", x, 0, count(kind, seq, x))

Call_contains ==
    \E x \in Vals : Apply("contains", x, 0, contains(kind, seq, x))

Call_index ==
    \E x \in Vals : Apply("index", x, 0, index(kind, seq, x))

Call_list == Apply("list", 0, 0, list(kind, seq))

Call_tuple == Apply("tuple", 0, 0, tuple(kind, seq))

\* impl IntoIterator for PySequence: the iterator takes the handle
Call_into_iter ==
    /\ it' = NewIterator("owned")
    /\ UNCHANGED <<kind, seq, pyerr, last, type_ptr, init_active, stack, builds, calls, heap, ret>>

\* impl IntoIterator for &PySequence: the iterator takes a clone of the handle
Call_into_iter_ref ==
    /\ it' = NewIterator("borrowed")
    /\ UNCHANGED <<kind, seq, pyerr, last, type_ptr, init_active, stack, builds, calls, heap, ret>>

\* the foreign object changes under a live iterator, through another handle
\* to it (a clone_ref, or code of the runtime): the same calls, by someone else
Mutate(out) ==
    /\ it.state # "none"
    /\ out.post # seq
    /\ Len(out.post) <= MaxLen
    /\ seq' = out.post
    /\ pyerr' = ErrAfter(pyerr, out.sentinel, out.raised, out.fetched)
    /\ it' = [it EXCEPT !.dirty = TRUE]
    /\ UNCHANGED <<kind, last, type_ptr, init_active, stack, builds, calls, heap, ret>>

Mutate_del_item == \E i \in Idx : Mutate(del_item(kind, seq, i))

Mutate_in_place_concat ==
    \E o \in Others(seq) : Mutate(in_place_concat(kind, seq, o))

\* the foreign object's length query starts to fail under a live iterator
\* (an object whose __len__ raises from now on)
Mutate_fail ==
    /\ it.state # "none"
    /\ kind = "list"
    /\ kind' = "raising"
    /\ it' = [it EXCEPT !.dirty = TRUE]
    /\ UNCHANGED <<seq, pyerr, last, type_ptr, init_active, stack, builds, calls, heap, ret>>

Call_next ==
    /\ it.state # "none"
    /\ \E n \in next(kind, seq, it) :
          /\ it' = n.iter
          /\ pyerr' = ErrAfter(pyerr, n.sentinel, n.raised, n.fetched)
    /\ UNCHANGED <<kind, seq, last, type_ptr, init_active, stack, builds, calls, heap, ret>>

\* ================================================= rustobject/class.rs
\* static mut type_ptr: *mut PyTypeObject = 0 as *mut _
NULL == 0

\* the type of a foreign object that no py_class! type ever is (an int)
IntType == MaxCalls + 1

ObjIds == 1..MaxObjs
Apis == {"initialize", "type_object", "create_instance"}

FreeSlot == [ty |-> NULL, rc |-> 0]

\* a handle is dropped or released: one strong reference less, and the
\* object is freed with its last one
Release(h, o) ==
    IF h[o].rc <= 1 THEN [h EXCEPT ![o] = FreeSlot]
    ELSE [h EXCEPT ![o].rc = @ - 1]

\* what a finished (or faulted) call of the embedder got
\* (nested: called by the running builder; built: it waited for a build)
Ret(id, api, arg, r, nested, built) ==
    [id |-> id, api |-> api, arg |-> arg, res |-> r, nested |-> nested,
     built |-> built]

NoRet == Ret(0, "none", 0, Ok(0), FALSE, FALSE)

\* initialize() without its fast path
initialize_entry_no_fast_path(tp, active) ==
    IF active THEN "reentrancy" ELSE "build"

\* initialize() without its reentrancy assertion
initialize_entry_no_assert(tp, active) ==
    IF tp # NULL THEN "ready" ELSE "build"

\* initialize(), up to the call of init(py): the fast path, the reentrancy
\* assertion, or the build
initialize_entry(tp, active) ==
    IF tp # NULL THEN "ready"
    ELSE IF active THEN "reentrancy"
    ELSE "build"

\* initialize(), had it cleared init_active only after a successful build
initialize_exit_poisoned(tp, r) ==
    [type_ptr |-> IF r.tag = "ok" THEN r.val ELSE tp,
     init_active |-> r.tag # "ok",
     res |-> r]

\* initialize(), after init(py) returned result r: the statics and the result
initialize_exit(tp, r) ==
    [type_ptr |-> IF r.tag = "ok" THEN r.val ELSE tp,
     init_active |-> FALSE,
     res |-> r]

\* type_object(): initialize on demand, or wrap the cached pointer
type_object_entry(tp) ==
    IF tp = NULL THEN "initialize" ELSE "from_type_ptr"

\* Result::unwrap / Result::expect
unwrap(r, msg) == IF r.tag = "err" THEN Panic(msg) ELSE r

\* the outcomes of init(py) that return: the shipped body is unimplemented!()
\* (see BuilderPanics); the body it stands for returns b.finish()
BuilderResults(build) == {Ok(build), Err("SystemError")}

\* the type object an API call sees when it does not have to wait for a build:
\* "build" when it has to
EntryResult(api, tp, active) ==
    LET e == IF api = "initialize" \/ type_object_entry(tp) = "initialize"
             THEN initialize_entry(tp, active)
             ELSE "from_type_ptr"
    IN CASE e = "build" -> [tag |-> "build", val |-> 0, exc |-> "none"]
         [] e = "reentrancy" ->
                Panic("Reentrancy detected: already initializing class")
         [] OTHER -> Ok(tp)

\* BaseObject::alloc: a new object in a free slot, or a failure (0)
AllocChoices(h) ==
    LET free == {o \in ObjIds : h[o].rc = 0}
    IN IF free = {} THEN {0} ELSE {0, Min(free)}

\* create_instance, had it wrapped the failed allocation's null pointer
create_instance_result_unchecked(a) == Ok(a)

\* $name(obj.expect("Allocation failed"))
create_instance_result(a) ==
    IF a = 0 THEN Panic("Allocation failed") ELSE Ok(a)

\* the rest of an API call once initialize() has returned r to it (or once
\* type_object() took the cached pointer): the call's result and the heap
Finish(api, id, nested, built, r) ==
    CASE api = "initialize" ->
            /\ ret' = Ret(id, api, 0, r, nested, built)
            /\ heap' = heap
      [] api = "type_object" ->
            /\ ret' = Ret(id, api, 0, unwrap(r, "unwrap on Err"), nested, built)
            /\ heap' = heap
      [] OTHER ->
            LET ty == unwrap(r, "unwrap on Err")
            IN IF ty.tag = "panic"
               THEN /\ ret' = Ret(id, api, 0, ty, nested, built)
                    /\ heap' = heap
               ELSE \E a \in AllocChoices(heap) :
                      /\ ret' = Ret(id, api, 0, create_instance_result(a), nested, built)
                      /\ heap' = IF a = 0 THEN heap
                                 ELSE [heap EXCEPT ![a] = [ty |-> ty.val, rc |-> 1]]

\* a panic unwinds every frame; a return leaves the frames below
AfterReturn(frames) == IF ret'.res.tag = "panic" THEN <<>> ELSE frames

\* the embedder, or the running builder (a nested call), calls one of
\* initialize(), type_object() (py.get_type) and create_instance()
Call(api) ==
    /\ calls < MaxCalls
    /\ calls' = calls + 1
    /\ LET e == EntryResult(api, type_ptr, init_active)
           nested == stack # <<>>
       IN IF e.tag = "build"
          THEN /\ init_active' = TRUE
               /\ builds' = builds + 1
               /\ stack' = Append(stack, [api |-> api, id |-> calls + 1,
                                          nested |-> nested, build |-> builds + 1])
               /\ UNCHANGED <<type_ptr, heap, ret>>
          ELSE /\ Finish(api, calls + 1, nested, FALSE, e)
               /\ stack' = AfterReturn(stack)
               /\ UNCHANGED <<type_ptr, init_active, builds>>
    /\ UNCHANGED seqvars

Call_initialize == Call("initialize")
Call_type_object == Call("type_object")
Call_create_instance == Call("create_instance")

\* init(py) returns to initialize(), which returns to the call that needed it
BuilderReturns ==
    /\ stack # <<>>
    /\ LET top == stack[Len(stack)]
       IN \E r \in BuilderResults(top.build) :
            LET x == initialize_exit(type_ptr, r)
            IN /\ type_ptr' = x.type_ptr
               /\ init_active' = x.init_active
               /\ Finish(top.api, top.id, top.nested, TRUE, x.res)
               /\ stack' = AfterReturn(SubSeq(stack, 1, Len(stack) - 1))
    /\ UNCHANGED <<builds, calls>>
    /\ UNCHANGED seqvars

\* init(py) panics (unimplemented!()): nothing on the way out resets the statics
BuilderPanics ==
    /\ stack # <<>>
    /\ LET top == stack[Len(stack)]
       IN ret' = Ret(top.id, top.api, 0, Panic("not yet implemented"), top.nested, TRUE)
    /\ stack' = <<>>
    /\ UNCHANGED <<type_ptr, init_active, builds, calls, heap>>
    /\ UNCHANGED seqvars

\* PyObject_TypeCheck(obj.as_ptr(), type_ptr) != 0
PyObject_TypeCheck(objty, tp) == tp # NULL /\ objty = tp

\* downcast_from, had it leaked obj (mem::forget) on the error path
downcast_from_leak(check, o) ==
    IF check THEN [res |-> Ok(o), dropped |-> FALSE]
    ELSE [res |-> Err("PythonObjectDowncastError"), dropped |-> FALSE]

\* downcast_from(py, obj): obj is taken by value; the error holds only py
downcast_from(check, o) ==
    IF check THEN [res |-> Ok(o), dropped |-> FALSE]
    ELSE [res |-> Err("PythonObjectDowncastError"), dropped |-> TRUE]

\* downcast_borrow_from(py, &obj)
downcast_borrow_from(check, o) ==
    IF check THEN [res |-> Ok(o), dropped |-> FALSE]
    ELSE [res |-> Err("PythonObjectDowncastError"), dropped |-> FALSE]

Downcast(api, o, d) ==
    /\ calls < MaxCalls
    /\ stack = <<>>
    /\ heap[o].rc > 0
    /\ calls' = calls + 1
    /\ ret' = Ret(calls + 1, api, o, d.res, FALSE, FALSE)
    /\ heap' = IF d.dropped THEN Release(heap, o) ELSE heap
    /\ UNCHANGED <<type_ptr, init_active, stack, builds>>
    /\ UNCHANGED seqvars

Call_downcast_from ==
    \E o \in ObjIds :
        Downcast("downcast_from", o,
                 downcast_from(PyObject_TypeCheck(heap[o].ty, type_ptr), o))

Call_downcast_borrow_from ==
    \E o \in ObjIds :
        Downcast("downcast_borrow_from", o,
                 downcast_borrow_from(PyObject_TypeCheck(heap[o].ty, type_ptr), o))

\* PyClone::clone_ref: one strong reference more
Call_clone_ref ==
    /\ calls < MaxCalls
    /\ stack = <<>>
    /\ \E o \in ObjIds :
          /\ heap[o].rc > 0
          /\ heap[o].rc < MaxRefs
          /\ heap' = [heap EXCEPT ![o].rc = @ + 1]
          /\ ret' = Ret(calls + 1, "clone_ref", o, Ok(o), FALSE, FALSE)
    /\ calls' = calls + 1
    /\ UNCHANGED <<type_ptr, init_active, stack, builds>>
    /\ UNCHANGED seqvars

\* PyDrop::release_ref, or a handle going out of scope
Call_release_ref ==
    /\ calls < MaxCalls
    /\ stack = <<>>
    /\ \E o \in ObjIds :
          /\ heap[o].rc > 0
          /\ heap' = Release(heap, o)
          /\ ret' = Ret(calls + 1, "release_ref", o, Ok(0), FALSE, FALSE)
    /\ calls' = calls + 1
    /\ UNCHANGED <<type_ptr, init_active, stack, builds>>
    /\ UNCHANGED seqvars

\* ======================================================= specifications
InitSeq ==
    /\ kind \in Kinds
    /\ seq \in (IF kind = "list" THEN Lists ELSE {<<>>})
    /\ pyerr = "none"
    /\ last = NoOp
    /\ it = NoIterator

InitClass ==
    /\ type_ptr = NULL
    /\ init_active = FALSE
    /\ stack = <<>>
    /\ builds = 0
    /\ calls = 0
    /\ heap = [o \in ObjIds |-> IF o = 1 THEN [ty |-> IntType, rc |-> 1] ELSE FreeSlot]
    /\ ret = NoRet

\* the sequence adapter and its iterator on one foreign object
Init == InitSeq /\ InitClass

Next ==
    \/ Call_len
    \/ Call_concat
    \/ Call_repeat
    \/ Call_in_place_concat
    \/ Call_in_place_repeat
    \/ Call_get_item
    \/ Call_get_slice
    \/ Call_set_item
    \/ Call_del_item
    \/ Call_set_slice
    \/ Call_del_slice
    \/ Call_count
    \/ Call_contains
    \/ Call_index
    \/ Call_list
    \/ Call_tuple

Spec == Init /\ [][Next]_vars

\* one iterator at a time over the foreign object, which may change under it
NextIter ==
    \/ Call_into_iter
    \/ Call_into_iter_ref
    \/ Call_next
    \/ Mutate_del_item
    \/ Mutate_in_place_concat
    \/ Mutate_fail

SpecIter == Init /\ [][NextIter]_vars

\* one py_class! type, its statics, and the objects the embedder holds
InitOneClass ==
    /\ kind = "list"
    /\ seq = <<>>
    /\ pyerr = "none"
    /\ last = NoOp
    /\ it = NoIterator
    /\ InitClass

NextClass ==
    \/ Call_initialize
    \/ Call_type_object
    \/ Call_create_instance
    \/ BuilderReturns
    \/ BuilderPanics
    \/ Call_downcast_from
    \/ Call_downcast_borrow_from
    \/ Call_clone_ref
    \/ Call_release_ref

SpecClass == InitOneClass /\ [][NextClass]_vars

\* ================================================================ claims
\* the step is a call made now: of the API named, finished or waiting for
\* the build it started
CalledNow(api) ==
    /\ calls' # calls
    /\ \/ ret'.id = calls' /\ ret'.api = api
       \/ /\ Len(stack') = Len(stack) + 1
          /\ stack'[Len(stack')].api = api

\* C1: once the type is Ready (type_ptr is set), every later call of
\* initialize() or type_object() returns that same descriptor at once, the
\* builder does not run again, and the cached descriptor neither changes nor
\* goes back to Uninitialized or Initializing.
C1_InitializeIdempotent ==
    [][type_ptr # NULL =>
          /\ type_ptr' = type_ptr
          /\ ~init_active'
          /\ builds' = builds
          /\ (CalledNow("initialize") \/ CalledNow("type_object")) =>
                 /\ ret'.id = calls'
                 /\ ret'.res = Ok(type_ptr)
                 /\ stack' = stack]_vars

\* a second call of initialize() returned the descriptor the first one built
C1_Witness ==
    /\ type_ptr # NULL
    /\ builds = 1
    /\ ret.api = "initialize"
    /\ ~ret.built
    /\ ret.res = Ok(type_ptr)

\* C2: a call that re-enters initialize() while the builder runs (directly,
\* or through type_object() or create_instance()) ends at once in the
\* reentrancy panic: the builder is not entered again, no descriptor is
\* returned, and no call is left waiting.
C2_ReentryFaults ==
    [][(stack # <<>> /\ calls' # calls) =>
          /\ ret'.id = calls'
          /\ ret'.nested
          /\ ret'.res = Panic("Reentrancy detected: already initializing class")
          /\ stack' = <<>>
          /\ builds' = builds
          /\ type_ptr' = NULL
          /\ heap' = heap]_vars

\* the builder asked for the type's own type object and the call panicked
C2_Witness ==
    /\ ret.nested
    /\ ret.api = "type_object"
    /\ ret.res.tag = "panic"
    /\ stack = <<>>

\* ------------------------------------------------------------ sequences
InRange(i, n) == 0 - n <= i /\ i < n

\* C3: get_item with an index outside [-length, length), on either side,
\* panics; it returns neither an element nor any other value.
C3_OutOfRangeFaults ==
    (last.op = "get_item" /\ kind = "list" /\ ~InRange(last.a, Len(last.pre)))
        => last.res.tag = "panic"

\* C4: whenever a foreign sequence call returned its sentinel, the operation
\* returns an error result that carries the exception the call raised, taken
\* from the session (none is left pending); it does not report success, and
\* the failure is not dropped.
C4_SentinelBecomesError ==
    last.sentinel =>
        /\ last.res.tag = "err"
        /\ last.res.exc = last.raised
        /\ pyerr = "none"

\* C5: for a list S and every i with 0 <= i < length(S), get_item(S, i) and
\* get_item(S, i - length(S)) both return the element at position i; so does
\* every get_item call made with an index in [-length, length).
C5_NegativeIndexAliasing ==
    kind = "list" =>
        /\ \A i \in 0..(Len(seq) - 1) :
              /\ get_item(kind, seq, i) = get_item(kind, seq, i - Len(seq))
              /\ \A g \in get_item(kind, seq, i - Len(seq)) : g.res = Ok(seq[i + 1])
        /\ (last.op = "get_item" /\ InRange(last.a, Len(last.pre))) =>
              last.res = Ok(last.pre[Norm(last.a, Len(last.pre)) + 1])

\* get_item(S, -length(S)) returned the first element of a full-length list
C5_Witness ==
    /\ kind = "list"
    /\ last.op = "get_item"
    /\ Len(last.pre) = MaxLen
    /\ last.a = 0 - MaxLen
    /\ last.res = Ok(last.pre[1])

\* C6: an iterator (consuming or made from a borrowed adapter) over a list
\* that did not change since the iterator was made has yielded the elements
\* at indices 0..index-1 in order, each equal to get_item at that index; it
\* never panics, and it signals exhaustion only after exactly length(S)
\* elements.
C6_IterationMatchesIndexing ==
    (it.state # "none" /\ ~it.dirty /\ kind = "list") =>
        /\ it.index <= Len(seq)
        /\ Len(it.yielded) = it.index
        /\ \A k \in 1..Len(it.yielded) :
              \A g \in get_item(kind, seq, k - 1) : g.res = Ok(it.yielded[k])
        /\ it.ret \in {"none", "some", "exhausted"}
        /\ it.ret = "some" => it.index >= 1
        /\ it.ret = "exhausted" => (it.index = Len(seq) /\ it.yielded = seq)

\* a borrowed-adapter iterator went through a full-length list and then
\* signalled exhaustion
C6_Witness ==
    /\ kind = "list"
    /\ it.state = "borrowed"
    /\ ~it.dirty
    /\ it.ret = "exhausted"
    /\ Len(seq) = MaxLen
    /\ it.yielded = seq

\* del_item(S, 0) called c times in a row, stopping at the first error: the
\* number of calls that succeeded and the sequence left
RECURSIVE DelFront(_, _, _)
DelFront(k, s, c) ==
    IF c = 0 THEN [n |-> 0, s |-> s]
    ELSE LET o == del_item(k, s, 0)
         IN IF o.res.tag # "ok" THEN [n |-> 0, s |-> o.post]
            ELSE LET r == DelFront(k, o.post, c - 1)
                 IN [n |-> r.n + 1, s |-> r.s]

\* C7: on a list, del_item(S, i) with i in [-length, length) succeeds and
\* leaves S without the element at i, the others in order; with any other i
\* (every i on the empty list) it returns an error and leaves S as it was.
\* Deleting index 0 again and again from a list of length n succeeds exactly
\* n times, the m-th time leaving the elements after the first m.
C7_DelItem ==
    kind = "list" =>
        /\ last.op = "del_item" =>
              LET n == Len(last.pre)
                  j == Norm(last.a, n)
              IN IF InRange(last.a, n)
                 THEN /\ last.res = Ok(0)
                      /\ Len(seq) = n - 1
                      /\ \A p \in 1..(n - 1) :
                            seq[p] = IF p <= j THEN last.pre[p] ELSE last.pre[p + 1]
                 ELSE /\ last.res.tag = "err"
                      /\ seq = last.pre
        /\ DelFront(kind, seq, Len(seq) + 1).n = Len(seq)
        /\ \A m \in 0..Len(seq) :
              /\ DelFront(kind, seq, m).n = m
              /\ DelFront(kind, seq, m).s = SubSeq(seq, m + 1, Len(seq))

\* the last element of a list was deleted at index 0, and the list is empty
C7_Witness ==
    /\ kind = "list"
    /\ last.op = "del_item"
    /\ last.a = 0
    /\ last.res.tag = "ok"
    /\ Len(last.pre) = 1
    /\ seq = <<>>

IsTrue(r) == r.tag = "ok" /\ r.val = TRUE
IsFalse(r) == r.tag = "ok" /\ r.val = FALSE

\* the position index() must report: the smallest one holding x
FirstPosition(s, x, p) ==
    /\ p \in 0..(Len(s) - 1)
    /\ s[p + 1] = x
    /\ \A q \in 0..(p - 1) : s[q + 1] # x

\* C8 as stated: contains(S, x) is true exactly when index(S, x) succeeds and
\* false exactly when index(S, x) returns an error; index returns the
\* smallest position holding x.
C8_ContainsIffIndex ==
    /\ last.op = "contains" =>
          LET ix == index(kind, last.pre, last.a).res
          IN /\ IsTrue(last.res) <=> ix.tag = "ok"
             /\ IsFalse(last.res) <=> ix.tag = "err"
    /\ last.op = "index" =>
          LET c == contains(kind, last.pre, last.a).res
          IN /\ IsTrue(c) <=> last.res.tag = "ok"
             /\ IsFalse(c) <=> last.res.tag = "err"
             /\ last.res.tag = "ok" => FirstPosition(last.pre, last.a, last.res.val)

\* C8 amended: contains(S, x) is true exactly when index(S, x) succeeds, and
\* index then returns the smallest position holding x; when contains is false
\* index returns an error; when index returns an error contains is false
\* unless the membership test itself failed, and then contains returns that
\* error and not false.
C8_ContainsIffIndexAmended ==
    /\ last.op = "contains" =>
          LET ix == index(kind, last.pre, last.a).res
          IN /\ IsTrue(last.res) <=> ix.tag = "ok"
             /\ IsFalse(last.res) => ix.tag = "err"
             /\ ix.tag = "err" => (IsFalse(last.res) \/ last.res.tag = "err")
             /\ last.res.tag = "err" <=> last.sentinel
             /\ last.res.tag \in {"ok", "err"}
    /\ last.op = "index" =>
          LET c == contains(kind, last.pre, last.a)
          IN /\ IsTrue(c.res) <=> last.res.tag = "ok"
             /\ IsFalse(c.res) => last.res.tag = "err"
             /\ last.res.tag = "err" => (IsFalse(c.res) \/ (c.res.tag = "err" /\ c.sentinel))
             /\ last.res.tag = "ok" => FirstPosition(last.pre, last.a, last.res.val)

\* the membership test failed: contains returned the error, as index does
C8_Witness ==
    /\ last.op = "contains"
    /\ last.res.tag = "err"
    /\ index(kind, last.pre, last.a).res.tag = "err"

\* ------------------------------------------------ instances and downcasts
\* C9: create_instance called while the type is Uninitialized starts the
\* build before anything is allocated; every create_instance call ends in a
\* panic or with a handle to a new object (one strong reference) whose type
\* is the cached descriptor of a Ready type; it never returns a null handle.
C9_CreateInstance ==
    [][/\ (CalledNow("create_instance") /\ type_ptr = NULL /\ ~init_active) =>
             /\ init_active'
             /\ builds' = builds + 1
             /\ Len(stack') = Len(stack) + 1
             /\ heap' = heap
             /\ ret' = ret
       /\ (ret' # ret /\ ret'.api = "create_instance") =>
             /\ ret'.res.tag \in {"ok", "panic"}
             /\ ret'.res.tag = "ok" =>
                   /\ type_ptr' # NULL
                   /\ ~init_active'
                   /\ ret'.res.val \in ObjIds
                   /\ heap[ret'.res.val].rc = 0
                   /\ heap'[ret'.res.val] = [ty |-> type_ptr', rc |-> 1]
             /\ ret'.res.tag = "panic" => heap' = heap]_vars

\* a create_instance call made while the type was Uninitialized ran the
\* build and then returned an instance
C9_Witness ==
    /\ ret.api = "create_instance"
    /\ ret.built
    /\ ret.res.tag = "ok"
    /\ type_ptr # NULL
    /\ heap[ret.res.val] = [ty |-> type_ptr, rc |-> 1]

\* C10 as stated: downcast_from succeeds exactly when the type check holds;
\* when it fails it gives the handle back, and the object's reference count
\* is what it was.
C10_DowncastKeepsHandle ==
    [][(ret'.id = calls' /\ calls' # calls /\ ret'.api = "downcast_from") =>
          LET o == ret'.arg
          IN /\ ret'.res.tag = "ok" <=> PyObject_TypeCheck(heap[o].ty, type_ptr)
             /\ ret'.res.tag = "ok" => (ret'.res.val = o /\ heap' = heap)
             /\ ret'.res.tag # "ok" => (ret'.res.val = o /\ heap' = heap)]_vars

\* C10 amended: downcast_from succeeds exactly when the type check holds,
\* and then wraps the same object, its reference count unchanged; when it
\* fails it returns an error that holds no handle, and the handle passed in
\* is dropped: the object has one strong reference less (it is freed when
\* that was the last one) and no other object changes.
C10_DowncastConsumesHandle ==
    [][(ret'.id = calls' /\ calls' # calls /\ ret'.api = "downcast_from") =>
          LET o == ret'.arg
          IN /\ ret'.res.tag = "ok" <=> PyObject_TypeCheck(heap[o].ty, type_ptr)
             /\ ret'.res.tag \in {"ok", "err"}
             /\ ret'.res.tag = "ok" => (ret'.res.val = o /\ heap' = heap)
             /\ ret'.res.tag = "err" =>
                   /\ ret'.res.val # o
                   /\ heap'[o].rc = heap[o].rc - 1
                   /\ heap[o].rc = 1 => heap'[o] = FreeSlot
                   /\ \A q \in ObjIds \ {o} : heap'[q] = heap[q]]_vars

\* the only handle to an object that is no instance of the type was passed
\* to downcast_from: the call failed and the object is gone
C10_Witness ==
    /\ ret.api = "downcast_from"
    /\ ret.res.tag = "err"
    /\ heap[ret.arg] = FreeSlot

\* a step in which a next() call changed the iterator (a next() that returns
\* None or panics a second time leaves the state as it was)
NextStep ==
    /\ it.state # "none"
    /\ it' # it
    /\ it'.ret # "none"
    /\ it'.dirty = it.dirty

\* what every outcome of next() is in the current state: decided by the
\* length the object has now; the cursor moves by one with an element and
\* not at all otherwise; an element is due whenever the cursor is below the
\* current length, also after None was returned before
NextUsesCurrentLength ==
    it.state # "none" =>
        \A n \in next(kind, seq, it) :
            /\ n.iter.index >= it.index
            /\ n.iter.ret \in {"some", "some_null"} =>
                  /\ n.iter.index = it.index + 1
                  /\ len(kind, seq).res.tag = "ok"
                  /\ it.index < len(kind, seq).res.val
            /\ n.iter.ret \in {"exhausted", "panic"} =>
                  /\ n.iter.index = it.index
                  /\ n.iter.yielded = it.yielded
            /\ n.iter.ret = "exhausted" =>
                  /\ len(kind, seq).res.tag = "ok"
                  /\ it.index >= len(kind, seq).res.val
            /\ (kind = "list" /\ it.index < Len(seq)) =>
                  /\ n.iter.ret = "some"
                  /\ n.iter.index = it.index + 1
                  /\ n.iter.yielded = Append(it.yielded, seq[it.index + 1])

\* the cursor of one iterator over the steps taken
CursorMonotone ==
    /\ it'.ret # "none" => (it'.index >= it.index /\ it'.index <= it.index + 1)
    /\ NextStep => \E n \in next(kind, seq, it) : it' = n.iter
    /\ (NextStep /\ it.ended /\ kind = "list" /\ Len(seq) > it.index) =>
          /\ it'.ret = "some"
          /\ it'.index = it.index + 1
          /\ it'.yielded = Append(it.yielded, seq[it.index + 1])

\* C11: the iterator takes no snapshot. Each next() decides by the length the
\* sequence has now; the cursor never decreases, advances by exactly one on
\* each element returned and stays when next() returns None; after a None, a
\* sequence grown past the cursor makes the following next() return the
\* element at the cursor.
C11_NoSnapshot == [](NextUsesCurrentLength) /\ [][CursorMonotone]_vars

\* an iterator that had returned None went on to return the element the
\* sequence had gained at the cursor
C11_Witness ==
    /\ kind = "list"
    /\ it.state # "none"
    /\ it.ended
    /\ it.dirty
    /\ it.ret = "some"
    /\ it.index = Len(seq)
    /\ it.yielded[it.index] = seq[it.index]

\* C12: when the length query fails inside next(), every outcome of next()
\* is a panic: no element, no None, no error value, and the cursor and the
\* elements yielded stay as they were.
C12_LengthFailureIsFatal ==
    /\ (it.state # "none" /\ len(kind, seq).res.tag = "err") =>
          \A n \in next(kind, seq, it) :
              /\ n.iter.ret = "panic"
              /\ n.iter.index = it.index
              /\ n.iter.yielded = it.yielded
              /\ n.iter.ended = it.ended
    /\ (kind = "raising" /\ it.state # "none" /\ ~it.dirty) =>
          (it.ret \in {"none", "panic"} /\ it.index = 0 /\ it.yielded = <<>>)

\* next() panicked on an object whose length query began to fail after the
\* iterator had already yielded an element
C12_Witness ==
    /\ kind = "raising"
    /\ it.ret = "panic"
    /\ it.index >= 1
    /\ Len(it.yielded) = it.index

\* C13: negative repeat counts are valid. On a non-empty list every negative
\* count makes repeat and in_place_repeat return Ok with a sequence of length
\* 0 (repeat leaves the object as it was, in_place_repeat empties it), and on
\* no object does the sign of the count decide between Ok and Err.
C13_NegativeRepeat ==
    /\ \A s \in Lists \ {<<>>} : \A n \in {c \in Counts : c < 0} :
          /\ repeat("list", s, n).res.tag = "ok"
          /\ Len(repeat("list", s, n).res.val) = 0
          /\ repeat("list", s, n).post = s
          /\ in_place_repeat("list", s, n).res.tag = "ok"
          /\ Len(in_place_repeat("list", s, n).res.val) = 0
    /\ \A n \in {c \in Counts : c < 0} :
          /\ repeat(kind, seq, n).res.tag = repeat(kind, seq, 0).res.tag
          /\ in_place_repeat(kind, seq, n).res.tag = in_place_repeat(kind, seq, 0).res.tag
    /\ (kind = "list" /\ last.op \in {"repeat", "in_place_repeat"}
           /\ last.a < 0 /\ last.pre # <<>>) =>
          /\ last.res = Ok(<<>>)
          /\ ~last.sentinel
          /\ last.op = "repeat" => seq = last.pre
          /\ last.op = "in_place_repeat" => seq = <<>>

\* in_place_repeat with the most negative count on a full-length list
\* returned an empty sequence
C13_Witness ==
    /\ kind = "list"
    /\ last.op = "in_place_repeat"
    /\ last.a = 0 - MaxCount
    /\ Len(last.pre) = MaxLen
    /\ last.res = Ok(<<>>)
    /\ seq = <<>>

\* ------------------------------------------------------------ the class
\* the step in which init(py) returned Err to the initialize() running it
BuilderFailedNow ==
    /\ stack # <<>>
    /\ ret'.id # ret.id
    /\ ret'.built
    /\ ret'.id = stack[Len(stack)].id
    /\ ret'.res.exc # "not yet implemented"
    /\ type_ptr' = NULL

\* C14: when the builder returns Err, initialize() returns that same Err,
\* type_ptr stays null and init_active is cleared (Uninitialized again); the
\* next call of initialize() enters the builder again and does not panic.
C14_FailedBuildRetries ==
    [][/\ BuilderFailedNow =>
             /\ ~init_active'
             /\ stack' = <<>>
             /\ builds' = builds
             /\ ret'.api = "initialize" => ret'.res = Err("SystemError")
       /\ (type_ptr = NULL /\ ~init_active /\ builds >= 1
              /\ CalledNow("initialize")) =>
             /\ stack = <<>>
             /\ builds' = builds + 1
             /\ init_active'
             /\ type_ptr' = NULL
             /\ ret' = ret
             /\ Len(stack') = 1
             /\ stack'[1].api = "initialize"
             /\ stack'[1].build = builds + 1]_vars

\* initialize() returned the first build's Err, and the next initialize()
\* is running the builder a second time
C14_Witness ==
    /\ ret.api = "initialize"
    /\ ret.built
    /\ ret.res = Err("SystemError")
    /\ builds = 2
    /\ type_ptr = NULL
    /\ init_active
    /\ Len(stack) = 1
    /\ stack[1].api = "initialize"
    /\ stack[1].build = 2

\* C15: whenever no initialize() call is in progress the type is
\* Uninitialized or Ready (init_active is false), also after the builder
\* panicked; so a call that is not made by a running builder never ends in
\* the reentrancy panic.
C15_InitializingOnlyWhileActive ==
    /\ [](stack = <<>> => ~init_active)
    /\ [][(calls' # calls /\ stack = <<>> /\ ret'.id = calls') =>
             ret'.res # Panic("Reentrancy detected: already initializing class")]_vars
====
